---- MODULE Spec2Model ----
(***************************************************************************)
(* Smart Expense Assistant: the form controller (App.tsx), the AI          *)
(* extraction adapter (services/geminiService) and the submission adapter  *)
(* (services/n8nService) as one state machine.                             *)
(*                                                                         *)
(* Encoding of JavaScript values:                                          *)
(*   - a nullable string (File | null, string | null) is a string, with    *)
(*     Null standing for null;                                             *)
(*   - amount (number | '') is a sequence: <<>> is '' and <<n>> is n;      *)
(*   - expenseDate is a sequence of segments, where the segment "T" is     *)
(*     the character 'T' (so that split('T') is computed, not assumed);    *)
(*   - a data URL is the sequence of its comma separated parts; the null   *)
(*     result of a failed read is <<>>;                                    *)
(*   - a Partial<ExpenseData> is a function whose DOMAIN is the set of     *)
(*     keys present.                                                       *)
(* User events are modelled at the handler boundary: an event is enabled   *)
(* when its control is rendered and not disabled.                          *)
(***************************************************************************)
EXTENDS Integers, Sequences, FiniteSets, TLC

VARIABLES
    expenseData,           \* useState<ExpenseData>
    receiptFile,           \* useState<File | null>
    receiptPreview,        \* useState<string | null>
    naturalLanguageQuery,  \* useState('')
    isAiLoading,           \* useState(false)
    aiError,               \* useState<string | null>
    submissionStatus,      \* useState<SubmissionStatus>
    submissionError,       \* useState<string | null>
    updatedFields,         \* useState<Set<string>>
    readers,               \* FileReader loads started and not yet ended: file -> count
    nlpCalls,              \* parseTextFromNaturalLanguage calls in flight
    ocrCalls,              \* parseReceiptFromImage calls in flight
    timers,                \* pending setTimeout callbacks of handleAiParseSuccess
    submitCall,            \* the submitExpense calls in flight: arguments and payload
    events                 \* number of user events so far

vars == <<expenseData, receiptFile, receiptPreview, naturalLanguageQuery,
          isAiLoading, aiError, submissionStatus, submissionError,
          updatedFields, readers, nlpCalls, ocrCalls, timers, submitCall,
          events>>

formVars == <<expenseData, receiptFile, receiptPreview, naturalLanguageQuery>>

-----------------------------------------------------------------------------
(* Bounds of the model *)

MaxEvents == 3      \* user events in one behaviour
MaxReaders == 2     \* FileReader loads pending at once
MaxCalls == 2       \* extraction calls in flight at once
MaxTimers == 2      \* highlight timers pending at once

-----------------------------------------------------------------------------
(* Values *)

Null == "<null>"
Unset == <<>>
NoPreview == <<>>

IDLE == "idle"
SUBMITTING == "submitting"
SUCCESS == "success"
ERROR == "error"

EXPENSE_CATEGORIES == {"Food Expense", "Travel", "Accommodation", "Other office expenses"}

Today == <<"2026-11-06">>

emptyExpenseState ==
    [ employeeName    |-> "Snehal Papnoi",
      employeeId      |-> "snehalpapnoi9@gmail.com",
      expenseCategory |-> "",
      project         |-> "",
      expenseTitle    |-> "",
      expenseDate     |-> Today,
      currency        |-> "INR",
      amount          |-> Unset,
      comment         |-> "" ]

IdentityFields == {"employeeName", "employeeId"}
AllFields == DOMAIN emptyExpenseState
FormFields == AllFields \ IdentityFields

RangeOf(seq) == {seq[i] : i \in 1..Len(seq)}

\* Number(expenseData.amount): Number('') is 0
NumberOf(a) == IF a = Unset THEN 0 ELSE a[1]

-----------------------------------------------------------------------------
(* Validator: validateForm, App.tsx *)

Push(errors, failed, label) == IF failed THEN Append(errors, label) ELSE errors

\* validateErrors with the amount tested by truthiness (!data.amount)
validateErrorsFalsyAmount(data, file) ==
    LET e1 == Push(<<>>, data.expenseCategory = "", "Expense Category")
        e2 == Push(e1, data.project = "", "Project / Cost Center")
        e3 == Push(e2, data.expenseTitle = "", "Expense Title")
        e4 == Push(e3, data.expenseDate = <<>>, "Expense Date")
        e5 == Push(e4, data.amount = Unset \/ data.amount = <<0>>, "Amount")
        e6 == Push(e5, data.comment = "", "Comment")
    IN  Push(e6, NumberOf(data.amount) > 500 /\ file = Null, "Upload Receipt")

\* validateErrors with the receipt rule at 500 and above
validateErrorsFrom500(data, file) ==
    LET e1 == Push(<<>>, data.expenseCategory = "", "Expense Category")
        e2 == Push(e1, data.project = "", "Project / Cost Center")
        e3 == Push(e2, data.expenseTitle = "", "Expense Title")
        e4 == Push(e3, data.expenseDate = <<>>, "Expense Date")
        e5 == Push(e4, data.amount = Unset, "Amount")
        e6 == Push(e5, data.comment = "", "Comment")
    IN  Push(e6, NumberOf(data.amount) >= 500 /\ file = Null, "Upload Receipt")

\* the errors array built by validateForm
validateErrors(data, file) ==
    LET e1 == Push(<<>>, data.expenseCategory = "", "Expense Category")
        e2 == Push(e1, data.project = "", "Project / Cost Center")
        e3 == Push(e2, data.expenseTitle = "", "Expense Title")
        e4 == Push(e3, data.expenseDate = <<>>, "Expense Date")
        e5 == Push(e4, data.amount = Unset, "Amount")
        e6 == Push(e5, data.comment = "", "Comment")
    IN  Push(e6, NumberOf(data.amount) > 500 /\ file = Null, "Upload Receipt")

NoMessage == <<>>
ValidationPrefix == "Please complete all required fields: "

\* validateForm: null (NoMessage) or the message, the errors joined
validateForm(data, file) ==
    LET errors == validateErrors(data, file)
    IN  IF Len(errors) > 0
        THEN <<ValidationPrefix>> \o errors
        ELSE NoMessage

-----------------------------------------------------------------------------
(* Merge policy: handleAiParseSuccess, App.tsx *)

\* const { employeeName, employeeId, ...restOfParsedData } = parsedData
RestOfParsedData(parsedData) ==
    [k \in DOMAIN parsedData \ IdentityFields |-> parsedData[k]]

\* MergeRecord that fills only the fields that are still empty
MergeRecordKeepEdited(prev, parsedData) ==
    LET rest == RestOfParsedData(parsedData)
    IN  [k \in DOMAIN prev \cup DOMAIN rest |->
            IF /\ k \in DOMAIN rest
               /\ \/ k \notin DOMAIN prev
                  \/ (IF k \in {"amount", "expenseDate"} THEN prev[k] = <<>> ELSE prev[k] = "")
            THEN rest[k] ELSE prev[k]]

\* { ...prev, ...restOfParsedData }
MergeRecord(prev, parsedData) ==
    LET rest == RestOfParsedData(parsedData)
    IN  [k \in DOMAIN prev \cup DOMAIN rest |->
            IF k \in DOMAIN rest THEN rest[k] ELSE prev[k]]

\* MergeKeys that takes the keys of parsedData, identity fields included
MergeKeysOfParsedData(parsedData) == DOMAIN parsedData

\* new Set(Object.keys(restOfParsedData))
MergeKeys(parsedData) == DOMAIN RestOfParsedData(parsedData)

-----------------------------------------------------------------------------
(* AI extraction adapter: services/geminiService *)

\* JSON values of a response object, by typeof
JStr(s) == [t |-> "string", s |-> s]
JDate(segs) == [t |-> "string", segs |-> segs]
JNum(n) == [t |-> "number", n |-> n]

\* the outcome of ai.models.generateContent
ApiReject == [api |-> "reject"]
ApiNotJson == [api |-> "resolve", json |-> "invalid"]
ApiJsonNull == [api |-> "resolve", json |-> "null"]
ApiObject(obj) == [api |-> "resolve", json |-> "object", obj |-> obj]

\* String.prototype.toUpperCase on the currency strings of the model
ToUpperCase(s) ==
    CASE s = "usd" -> "USD"
      [] s = "Eur" -> "EUR"
      [] s = "inr" -> "INR"
      [] OTHER -> s

RECURSIVE SplitT(_)
\* parsed.expenseDate.split('T')[0]: the segments before the first 'T'
SplitT(segs) ==
    IF segs = <<>> \/ Head(segs) = "T"
    THEN <<>>
    ELSE <<Head(segs)>> \o SplitT(Tail(segs))

Has(obj, k, type) == k \in DOMAIN obj /\ obj[k].t = type

\* Sanitize that keeps any string as expenseCategory
SanitizeAnyCategory(parsed) ==
    LET cat  == IF Has(parsed, "expenseCategory", "string")
                THEN {"expenseCategory"} ELSE {}
        strs == {k \in {"project", "expenseTitle", "comment", "currency"} :
                    Has(parsed, k, "string")}
        date == IF Has(parsed, "expenseDate", "string") THEN {"expenseDate"} ELSE {}
        amt  == IF Has(parsed, "amount", "number") THEN {"amount"} ELSE {}
    IN  [k \in cat \cup strs \cup date \cup amt |->
            CASE k = "expenseDate" -> SplitT(parsed[k].segs)
              [] k = "currency" -> ToUpperCase(parsed[k].s)
              [] k = "amount" -> <<parsed[k].n>>
              [] OTHER -> parsed[k].s]

\* the sanitizedData object of parseJsonResponse
Sanitize(parsed) ==
    LET cat  == IF /\ Has(parsed, "expenseCategory", "string")
                   /\ parsed.expenseCategory.s \in EXPENSE_CATEGORIES
                THEN {"expenseCategory"} ELSE {}
        strs == {k \in {"project", "expenseTitle", "comment", "currency"} :
                    Has(parsed, k, "string")}
        date == IF Has(parsed, "expenseDate", "string") THEN {"expenseDate"} ELSE {}
        amt  == IF Has(parsed, "amount", "number") THEN {"amount"} ELSE {}
    IN  [k \in cat \cup strs \cup date \cup amt |->
            CASE k = "expenseDate" -> SplitT(parsed[k].segs)
              [] k = "currency" -> ToUpperCase(parsed[k].s)
              [] k = "amount" -> <<parsed[k].n>>
              [] OTHER -> parsed[k].s]

Ok(data) == [ok |-> TRUE, data |-> data]
Err(message) == [ok |-> FALSE, message |-> message]

\* parseJsonResponse: JSON.parse throws on text that is not JSON, and reading
\* a property of the parsed value throws when it is null
parseJsonResponse(response) ==
    IF response.json = "object"
    THEN Ok(Sanitize(response.obj))
    ELSE Err("Could not understand the AI's response. Please try again or enter manually.")

\* parseTextFromNaturalLanguage: the catch wraps what the try throws,
\* parseJsonResponse's error included
parseTextFromNaturalLanguage(outcome) ==
    LET r == IF outcome.api = "reject" THEN Err("reject") ELSE parseJsonResponse(outcome)
    IN  IF r.ok THEN r
        ELSE Err("Failed to process your request. The AI service may be unavailable.")

\* parseReceiptFromImage
parseReceiptFromImage(outcome) ==
    LET r == IF outcome.api = "reject" THEN Err("reject") ELSE parseJsonResponse(outcome)
    IN  IF r.ok THEN r
        ELSE Err("Failed to read the receipt. The AI service may be unavailable.")

-----------------------------------------------------------------------------
(* Submission adapter: services/n8nService *)

\* the configured endpoint, as scheme, host and path
N8N_WEBHOOK_URL ==
    <<"https://", "snehalpapnoi9.app.n8n.cloud",
      "/webhook/41a87729-88be-4791-86ef-708e5d1ee553">>

\* N8N_WEBHOOK_URL.includes('n8n.example.com')
UrlIsPlaceholder == "n8n.example.com" \in RangeOf(N8N_WEBHOOK_URL)

\* Object.entries(data) follows the insertion order of emptyExpenseState
FieldOrder ==
    <<"employeeName", "employeeId", "expenseCategory", "project",
      "expenseTitle", "expenseDate", "currency", "amount", "comment">>

\* String(value): '' for the unset amount, the decimal digits of a number
StringOf(key, value) ==
    IF key = "amount"
    THEN (IF value = Unset THEN "" ELSE ToString(value[1]))
    ELSE value

\* FormDataOf that appends a receipt entry whether a file is attached or not
FormDataOfAlwaysReceipt(data, file) ==
    [i \in 1..Len(FieldOrder) |-> <<FieldOrder[i], StringOf(FieldOrder[i], data[FieldOrder[i]])>>]
    \o <<<<"timestamp", "new Date().toISOString()">>>>
    \o <<<<"receipt", file>>>>
    \o <<<<"status", "Submitted">>>>

\* the FormData built by submitExpense
FormDataOf(data, file) ==
    [i \in 1..Len(FieldOrder) |-> <<FieldOrder[i], StringOf(FieldOrder[i], data[FieldOrder[i]])>>]
    \o <<<<"timestamp", "new Date().toISOString()">>>>
    \o (IF file # Null THEN <<<<"receipt", file>>>> ELSE <<>>)
    \o <<<<"status", "Submitted">>>>

\* submitExpense up to its await: the configuration check throws before the
\* payload is built, otherwise fetch is called with the payload
submitExpense(data, file) ==
    IF UrlIsPlaceholder
    THEN [data |-> data, file |-> file, sent |-> FALSE, payload |-> <<>>]
    ELSE [data |-> data, file |-> file, sent |-> TRUE, payload |-> FormDataOf(data, file)]

\* url.includes('n8n.example.com')
IsPlaceholder(url) == "n8n.example.com" \in RangeOf(url)

\* submitExpenseAt without the configuration check
submitExpenseAtUnchecked(url, data, file) ==
    [url |-> url, data |-> data, file |-> file, sent |-> TRUE,
     payload |-> FormDataOf(data, file)]

\* submitExpense up to its await, for a build whose constants.ts holds url
submitExpenseAt(url, data, file) ==
    IF IsPlaceholder(url)
    THEN [url |-> url, data |-> data, file |-> file, sent |-> FALSE, payload |-> <<>>]
    ELSE [url |-> url, data |-> data, file |-> file, sent |-> TRUE,
          payload |-> FormDataOf(data, file)]

NetworkErrorMessage ==
    "Could not submit your expense. Please check your network connection and webhook configuration."
ConfigurationErrorMessage ==
    "Submission failed. The n8n webhook URL has not been configured in 'constants.ts'."

-----------------------------------------------------------------------------
(* Inputs of the model *)

\* files the user may choose
Files == {"a.png", "b.jpg", "empty.png", "doc.pdf", "huge.png"}

FileType(f) ==
    CASE f = "b.jpg" -> "image/jpeg"
      [] f = "doc.pdf" -> "application/pdf"
      [] OTHER -> "image/png"

MAX_FILE_SIZE_BYTES == 5 * 1024 * 1024

FileSize(f) ==
    CASE f = "empty.png" -> 0
      [] f = "huge.png" -> MAX_FILE_SIZE_BYTES + 1
      [] f = "a.png" -> 2 * 1024 * 1024
      [] OTHER -> MAX_FILE_SIZE_BYTES

\* file.type.startsWith('image/')
IsImage(f) == FileType(f) \in {"image/png", "image/jpeg"}

\* the result of readAsDataURL, as its comma separated parts
DataUrl(f) ==
    << <<"data:", FileType(f), ";base64">>,
       IF FileSize(f) = 0 THEN "" ELSE "base64 of the file" >>

\* what reader.result may be at onloadend: the data URL, or null after an error
ReadResults(f) == {DataUrl(f), NoPreview}

\* values of the form inputs (e.target.value, by e.target.name)
InputValues(name) ==
    CASE name = "expenseCategory" -> {"Travel"}
      [] name = "project" -> {"", "Sales"}
      [] name = "expenseTitle" -> {"", "Taxi"}
      [] name = "expenseDate" -> {<<>>, <<"2026-11-01">>}
      [] name = "currency" -> {"INR", "USD"}
      [] name = "amount" -> {"", "0", "500", "600"}
      [] name = "comment" -> {"", "client visit"}

\* parseFloat on the values of the amount input
parseFloat(value) ==
    CASE value = "0" -> 0
      [] value = "500" -> 500
      [] value = "600" -> 600

\* texts typed into the description box
Blank == <<" ">>
TypedQueries == {<<>>, Blank, <<"Spent 1800 on client dinner at Hyatt">>}

\* naturalLanguageQuery.trim() is empty
TrimIsEmpty(q) == \A i \in 1..Len(q) : q[i] \in {"", " "}

\* a merchant name of 501 characters
LongTitle == "Cafe ... (501 characters)"

\* responses of the AI service
FullResponse ==
    ApiObject([ expenseCategory |-> JStr("Food Expense"),
                project         |-> JStr("Sales"),
                expenseTitle    |-> JStr("Hyatt"),
                expenseDate     |-> JDate(<<"2024-07-10", "T", "00:00:00Z">>),
                currency        |-> JStr("usd"),
                amount          |-> JNum(600),
                comment         |-> JStr("client dinner") ])

PartialResponse ==
    ApiObject([ expenseCategory |-> JStr("Unknown"),
                expenseTitle    |-> JStr(LongTitle),
                amount          |-> JStr("12"),
                employeeName    |-> JStr("Mallory") ])

EmptyResponse == ApiObject(<<>>)

ServiceOutcomes ==
    {ApiReject, ApiNotJson, ApiJsonNull, FullResponse, PartialResponse, EmptyResponse}

-----------------------------------------------------------------------------
(* The description sentence of handleOcrParse, as a sequence of segments *)

\* a key of parsedData that is present with a truthy value
Truthy(parsedData, k) ==
    /\ k \in DOMAIN parsedData
    /\ IF k = "amount" THEN parsedData[k] # <<0>>
       ELSE IF k = "expenseDate" THEN parsedData[k] # <<>>
       ELSE parsedData[k] # ""

\* descriptionParts
DescriptionParts(parsedData) ==
    (IF Truthy(parsedData, "amount")
     THEN << <<"Spent ", ToString(parsedData.amount[1])>>
             \o (IF Truthy(parsedData, "currency")
                 THEN <<" ", parsedData.currency>> ELSE <<>>) >>
     ELSE <<>>)
    \o (IF Truthy(parsedData, "expenseTitle")
        THEN << <<"at ", parsedData.expenseTitle>> >> ELSE <<>>)
    \o (IF Truthy(parsedData, "expenseDate")
        THEN << <<"on ">> \o parsedData.expenseDate >> ELSE <<>>)
    \o (IF Truthy(parsedData, "project")
        THEN << <<"for project ", parsedData.project>> >> ELSE <<>>)
    \o (IF Truthy(parsedData, "expenseCategory")
        THEN << <<"(category: ", parsedData.expenseCategory, ")">> >> ELSE <<>>)

RECURSIVE JoinParts(_)
\* descriptionParts.join(' ')
JoinParts(parts) ==
    IF parts = <<>> THEN <<>>
    ELSE IF Len(parts) = 1 THEN parts[1]
    ELSE parts[1] \o <<" ">> \o JoinParts(Tail(parts))

\* charAt(0).toUpperCase() + slice(1), on the first segment
Capitalize(segs) ==
    LET up == CASE segs[1] = "at " -> "At "
                [] segs[1] = "on " -> "On "
                [] segs[1] = "for project " -> "For project "
                [] OTHER -> segs[1]
    IN  <<up>> \o Tail(segs)

OcrSentence(parsedData) ==
    IF DOMAIN parsedData # {}
    THEN Capitalize(JoinParts(DescriptionParts(parsedData)) \o <<".">>)
    ELSE <<"AI parsed the receipt. Please review the fields below or describe the expense manually.">>

\* the length of a description, from the lengths of its segments
SegLen(seg) ==
    CASE seg \in {" ", "."} -> 1
      [] seg = "" -> 0
      [] seg \in {"at ", "on "} -> 3
      [] seg = LongTitle -> 501
      [] OTHER -> 40

RECURSIVE StrLen(_)
StrLen(segs) == IF segs = <<>> THEN 0 ELSE SegLen(Head(segs)) + StrLen(Tail(segs))

-----------------------------------------------------------------------------
(* State *)

NoCall == <<>>
NoReaders == [f \in Files |-> 0]

Init ==
    /\ expenseData = emptyExpenseState
    /\ receiptFile = Null
    /\ receiptPreview = NoPreview
    /\ naturalLanguageQuery = <<>>
    /\ isAiLoading = FALSE
    /\ aiError = Null
    /\ submissionStatus = IDLE
    /\ submissionError = NoMessage
    /\ updatedFields = {}
    /\ readers = NoReaders
    /\ nlpCalls = 0
    /\ ocrCalls = 0
    /\ timers = 0
    /\ submitCall = NoCall
    /\ events = 0

RECURSIVE SumOver(_, _)
SumOver(f, S) ==
    IF S = {} THEN 0
    ELSE LET x == CHOOSE y \in S : TRUE IN f[x] + SumOver(f, S \ {x})

PendingReads == SumOver(readers, Files)
CallsInFlight == nlpCalls + ocrCalls

\* the result modal is open and covers the page until it is dismissed
ModalOpen == submissionStatus \in {SUCCESS, ERROR}

\* a user event can happen
UserEvent ==
    /\ ~ModalOpen
    /\ events < MaxEvents
    /\ events' = events + 1

\* handleAiParseSuccess that clears the pending timers before it sets its own
handleAiParseSuccessCancelsPrior(parsedData) ==
    IF DOMAIN parsedData = {}
    THEN UNCHANGED <<expenseData, updatedFields, timers>>
    ELSE /\ expenseData' = MergeRecord(expenseData, parsedData)
         /\ updatedFields' = MergeKeys(parsedData)
         /\ timers' = 1

\* handleAiParseSuccess
handleAiParseSuccess(parsedData) ==
    IF DOMAIN parsedData = {}
    THEN UNCHANGED <<expenseData, updatedFields, timers>>
    ELSE /\ timers < MaxTimers
         /\ expenseData' = MergeRecord(expenseData, parsedData)
         /\ updatedFields' = MergeKeys(parsedData)
         /\ timers' = timers + 1

\* resetForm to a record whose identity fields are blank too
resetFormBlank ==
    /\ expenseData' = [emptyExpenseState EXCEPT !.employeeName = "", !.employeeId = ""]
    /\ receiptFile' = Null
    /\ receiptPreview' = NoPreview
    /\ naturalLanguageQuery' = <<>>
    /\ aiError' = Null

\* resetForm without setReceiptPreview(null)
resetFormKeepsPreview ==
    /\ expenseData' = emptyExpenseState
    /\ receiptFile' = Null
    /\ UNCHANGED receiptPreview
    /\ naturalLanguageQuery' = <<>>
    /\ aiError' = Null

\* resetForm
resetForm ==
    /\ expenseData' = emptyExpenseState
    /\ receiptFile' = Null
    /\ receiptPreview' = NoPreview
    /\ naturalLanguageQuery' = <<>>
    /\ aiError' = Null

-----------------------------------------------------------------------------
(* User events *)

\* HandleDataChange on a record object shared with the submitExpense calls in
\* flight: the edit shows in their argument
HandleDataChangeShared(name, value) ==
    /\ UserEvent
    /\ LET v == IF name = "amount"
                THEN (IF value # "" THEN <<parseFloat(value)>> ELSE Unset)
                ELSE value
       IN  /\ v # expenseData[name]
           /\ expenseData' = [expenseData EXCEPT ![name] = v]
           /\ submitCall' = [i \in 1..Len(submitCall) |->
                                [submitCall[i] EXCEPT !.data = [@ EXCEPT ![name] = v]]]
    /\ UNCHANGED <<receiptFile, receiptPreview, naturalLanguageQuery, isAiLoading,
                   aiError, submissionStatus, submissionError, updatedFields,
                   readers, nlpCalls, ocrCalls, timers>>

\* handleDataChange: onChange of a form input
HandleDataChange(name, value) ==
    /\ UserEvent
    /\ LET v == IF name = "amount"
                THEN (IF value # "" THEN <<parseFloat(value)>> ELSE Unset)
                ELSE value
       IN  /\ v # expenseData[name]
           /\ expenseData' = [expenseData EXCEPT ![name] = v]
    /\ UNCHANGED <<receiptFile, receiptPreview, naturalLanguageQuery, isAiLoading,
                   aiError, submissionStatus, submissionError, updatedFields,
                   readers, nlpCalls, ocrCalls, timers, submitCall>>

\* onChange of the description textarea (disabled while isAiLoading)
SetQuery(text) ==
    /\ UserEvent
    /\ ~isAiLoading
    /\ text # naturalLanguageQuery
    /\ naturalLanguageQuery' = text
    /\ UNCHANGED <<expenseData, receiptFile, receiptPreview, isAiLoading,
                   aiError, submissionStatus, submissionError, updatedFields,
                   readers, nlpCalls, ocrCalls, timers, submitCall>>

\* HandleNlpParse without the check of the length
HandleNlpParseAnyLength ==
    /\ UserEvent
    /\ ~isAiLoading
    /\ IF TrimIsEmpty(naturalLanguageQuery)
       THEN /\ aiError' = "Please enter a description."
            /\ UNCHANGED <<isAiLoading, nlpCalls>>
       ELSE /\ CallsInFlight < MaxCalls
            /\ aiError' = Null
            /\ isAiLoading' = TRUE
            /\ nlpCalls' = nlpCalls + 1
    /\ UNCHANGED <<expenseData, receiptFile, receiptPreview, naturalLanguageQuery,
                   submissionStatus, submissionError, updatedFields,
                   readers, ocrCalls, timers, submitCall>>

\* handleNlpParse up to its await: the Generate button (disabled while isAiLoading)
HandleNlpParse ==
    /\ UserEvent
    /\ ~isAiLoading
    /\ IF TrimIsEmpty(naturalLanguageQuery)
       THEN /\ aiError' = "Please enter a description."
            /\ UNCHANGED <<isAiLoading, nlpCalls>>
       ELSE IF StrLen(naturalLanguageQuery) > 500
       THEN /\ aiError' = "Input is too long. Please keep it under 500 characters."
            /\ UNCHANGED <<isAiLoading, nlpCalls>>
       ELSE /\ CallsInFlight < MaxCalls
            /\ aiError' = Null
            /\ isAiLoading' = TRUE
            /\ nlpCalls' = nlpCalls + 1
    /\ UNCHANGED <<expenseData, receiptFile, receiptPreview, naturalLanguageQuery,
                   submissionStatus, submissionError, updatedFields,
                   readers, ocrCalls, timers, submitCall>>

\* handleFileChange: onChange of the file input (disabled while isAiLoading)
HandleFileChange(file) ==
    /\ UserEvent
    /\ ~isAiLoading
    /\ IF ~IsImage(file)
       THEN /\ aiError' = "Only image files are supported."
            /\ UNCHANGED <<receiptFile, readers>>
       ELSE IF FileSize(file) > MAX_FILE_SIZE_BYTES
       THEN /\ aiError' = "File is too large. Please upload an image under 5MB."
            /\ UNCHANGED <<receiptFile, readers>>
       ELSE /\ PendingReads < MaxReaders
            /\ aiError' = Null
            /\ receiptFile' = file
            /\ readers' = [readers EXCEPT ![file] = @ + 1]
    /\ UNCHANGED <<expenseData, receiptPreview, naturalLanguageQuery, isAiLoading,
                   submissionStatus, submissionError, updatedFields,
                   nlpCalls, ocrCalls, timers, submitCall>>

\* removeReceipt: the button rendered over the preview (disabled while isAiLoading)
RemoveReceipt ==
    /\ UserEvent
    /\ receiptPreview # NoPreview
    /\ ~isAiLoading
    /\ receiptFile' = Null
    /\ receiptPreview' = NoPreview
    /\ aiError' = Null
    /\ UNCHANGED <<expenseData, naturalLanguageQuery, isAiLoading,
                   submissionStatus, submissionError, updatedFields,
                   readers, nlpCalls, ocrCalls, timers, submitCall>>

\* HandleSubmit that calls submitExpense whatever validateForm returns
HandleSubmitSendsAnyway ==
    /\ UserEvent
    /\ submissionStatus # SUBMITTING
    /\ LET validationError == validateForm(expenseData, receiptFile)
       IN  /\ IF validationError # NoMessage
              THEN /\ submissionError' = validationError
                   /\ submissionStatus' = ERROR
              ELSE /\ submissionStatus' = SUBMITTING
                   /\ submissionError' = NoMessage
           /\ submitCall' = Append(submitCall, submitExpense(expenseData, receiptFile))
    /\ UNCHANGED <<expenseData, receiptFile, receiptPreview, naturalLanguageQuery,
                   isAiLoading, aiError, updatedFields,
                   readers, nlpCalls, ocrCalls, timers>>

\* HandleSubmit with a submit button that stays enabled while SUBMITTING
HandleSubmitNotDisabled ==
    /\ UserEvent
    /\ LET validationError == validateForm(expenseData, receiptFile)
       IN  IF validationError # NoMessage
           THEN /\ submissionError' = validationError
                /\ submissionStatus' = ERROR
                /\ UNCHANGED submitCall
           ELSE /\ submissionStatus' = SUBMITTING
                /\ submissionError' = NoMessage
                /\ submitCall' = Append(submitCall, submitExpense(expenseData, receiptFile))
    /\ UNCHANGED <<expenseData, receiptFile, receiptPreview, naturalLanguageQuery,
                   isAiLoading, aiError, updatedFields,
                   readers, nlpCalls, ocrCalls, timers>>

\* handleSubmit up to its await: the submit button (disabled while SUBMITTING)
HandleSubmit ==
    /\ UserEvent
    /\ submissionStatus # SUBMITTING
    /\ LET validationError == validateForm(expenseData, receiptFile)
       IN  IF validationError # NoMessage
           THEN /\ submissionError' = validationError
                /\ submissionStatus' = ERROR
                /\ UNCHANGED submitCall
           ELSE /\ submissionStatus' = SUBMITTING
                /\ submissionError' = NoMessage
                /\ submitCall' = Append(submitCall, submitExpense(expenseData, receiptFile))
    /\ UNCHANGED <<expenseData, receiptFile, receiptPreview, naturalLanguageQuery,
                   isAiLoading, aiError, updatedFields,
                   readers, nlpCalls, ocrCalls, timers>>

\* onClose of the result modal
ModalClose ==
    /\ ModalOpen
    /\ events < MaxEvents
    /\ events' = events + 1
    /\ submissionStatus' = IDLE
    /\ UNCHANGED <<expenseData, receiptFile, receiptPreview, naturalLanguageQuery,
                   isAiLoading, aiError, submissionError, updatedFields,
                   readers, nlpCalls, ocrCalls, timers, submitCall>>

-----------------------------------------------------------------------------
(* Callbacks and continuations *)

\* reader.onloadend, with handleOcrParse up to its await
ReaderLoadEnd(file, result) ==
    /\ readers[file] > 0
    /\ readers' = [readers EXCEPT ![file] = @ - 1]
    /\ receiptPreview' = result
    /\ IF result = NoPreview
       THEN \* dataUrl.split throws on null
            UNCHANGED <<isAiLoading, aiError, ocrCalls>>
       ELSE IF result[2] = ""
       THEN \* if (!base64String) return
            UNCHANGED <<isAiLoading, aiError, ocrCalls>>
       ELSE /\ CallsInFlight < MaxCalls
            /\ isAiLoading' = TRUE
            /\ aiError' = Null
            /\ ocrCalls' = ocrCalls + 1
    /\ UNCHANGED <<expenseData, receiptFile, naturalLanguageQuery,
                   submissionStatus, submissionError, updatedFields,
                   nlpCalls, timers, submitCall, events>>

\* NlpDone without the finally block: a failure leaves isAiLoading set
NlpDoneNoFinally(outcome) ==
    /\ nlpCalls > 0
    /\ nlpCalls' = nlpCalls - 1
    /\ LET r == parseTextFromNaturalLanguage(outcome)
       IN  IF r.ok
           THEN /\ handleAiParseSuccess(r.data)
                /\ isAiLoading' = FALSE
                /\ UNCHANGED aiError
           ELSE /\ aiError' = r.message
                /\ UNCHANGED <<expenseData, updatedFields, timers, isAiLoading>>
    /\ UNCHANGED <<receiptFile, receiptPreview, naturalLanguageQuery,
                   submissionStatus, submissionError,
                   readers, ocrCalls, submitCall, events>>

\* handleNlpParse after its await: try, catch and finally
NlpDone(outcome) ==
    /\ nlpCalls > 0
    /\ nlpCalls' = nlpCalls - 1
    /\ LET r == parseTextFromNaturalLanguage(outcome)
       IN  IF r.ok
           THEN /\ handleAiParseSuccess(r.data)
                /\ UNCHANGED aiError
           ELSE /\ aiError' = r.message
                /\ UNCHANGED <<expenseData, updatedFields, timers>>
    /\ isAiLoading' = FALSE
    /\ UNCHANGED <<receiptFile, receiptPreview, naturalLanguageQuery,
                   submissionStatus, submissionError,
                   readers, ocrCalls, submitCall, events>>

\* OcrDone with a stale-response guard: a result that arrives after the
\* attachment was removed is dropped
OcrDoneStaleGuard(outcome) ==
    /\ ocrCalls > 0
    /\ ocrCalls' = ocrCalls - 1
    /\ LET r == parseReceiptFromImage(outcome)
       IN  IF r.ok /\ receiptFile # Null
           THEN /\ handleAiParseSuccess(r.data)
                /\ naturalLanguageQuery' = OcrSentence(r.data)
                /\ UNCHANGED aiError
           ELSE IF r.ok
           THEN UNCHANGED <<expenseData, updatedFields, timers, naturalLanguageQuery, aiError>>
           ELSE /\ aiError' = r.message
                /\ UNCHANGED <<expenseData, updatedFields, timers, naturalLanguageQuery>>
    /\ isAiLoading' = FALSE
    /\ UNCHANGED <<receiptFile, receiptPreview,
                   submissionStatus, submissionError,
                   readers, nlpCalls, submitCall, events>>

\* handleOcrParse after its await: try, catch and finally
OcrDone(outcome) ==
    /\ ocrCalls > 0
    /\ ocrCalls' = ocrCalls - 1
    /\ LET r == parseReceiptFromImage(outcome)
       IN  IF r.ok
           THEN /\ handleAiParseSuccess(r.data)
                /\ naturalLanguageQuery' = OcrSentence(r.data)
                /\ UNCHANGED aiError
           ELSE /\ aiError' = r.message
                /\ UNCHANGED <<expenseData, updatedFields, timers, naturalLanguageQuery>>
    /\ isAiLoading' = FALSE
    /\ UNCHANGED <<receiptFile, receiptPreview,
                   submissionStatus, submissionError,
                   readers, nlpCalls, submitCall, events>>

\* a timer callback that leaves the highlight as it is
TimerFiresKeepsHighlight ==
    /\ timers > 0
    /\ timers' = timers - 1
    /\ UNCHANGED <<expenseData, receiptFile, receiptPreview, naturalLanguageQuery,
                   isAiLoading, aiError, submissionStatus, submissionError, updatedFields,
                   readers, nlpCalls, ocrCalls, submitCall, events>>

\* a timer callback that dismisses the AI error banner as well
TimerFiresClearsBanner ==
    /\ timers > 0
    /\ timers' = timers - 1
    /\ updatedFields' = {}
    /\ aiError' = Null
    /\ UNCHANGED <<expenseData, receiptFile, receiptPreview, naturalLanguageQuery,
                   isAiLoading, submissionStatus, submissionError,
                   readers, nlpCalls, ocrCalls, submitCall, events>>

\* the setTimeout callback of handleAiParseSuccess
TimerFires ==
    /\ timers > 0
    /\ timers' = timers - 1
    /\ updatedFields' = {}
    /\ UNCHANGED <<expenseData, receiptFile, receiptPreview, naturalLanguageQuery,
                   isAiLoading, aiError, submissionStatus, submissionError,
                   readers, nlpCalls, ocrCalls, submitCall, events>>

\* handleSubmit after its await, when fetch resolves
SubmitResolved ==
    /\ submitCall # NoCall
    /\ submitCall[1].sent
    /\ submitCall' = Tail(submitCall)
    /\ submissionStatus' = SUCCESS
    /\ resetForm
    /\ UNCHANGED <<isAiLoading, submissionError, updatedFields,
                   readers, nlpCalls, ocrCalls, timers, events>>

\* SubmitRejected that goes back to IDLE instead of ERROR
SubmitRejectedToIdle ==
    /\ submitCall # NoCall
    /\ submitCall' = Tail(submitCall)
    /\ submissionError' = <<IF submitCall[1].sent THEN NetworkErrorMessage
                              ELSE ConfigurationErrorMessage>>
    /\ submissionStatus' = IDLE
    /\ UNCHANGED <<expenseData, receiptFile, receiptPreview, naturalLanguageQuery,
                   isAiLoading, aiError, updatedFields,
                   readers, nlpCalls, ocrCalls, timers, events>>

\* SubmitRejected that resets the form as a success does
SubmitRejectedResetsForm ==
    /\ submitCall # NoCall
    /\ submitCall' = Tail(submitCall)
    /\ submissionError' = <<IF submitCall[1].sent THEN NetworkErrorMessage
                              ELSE ConfigurationErrorMessage>>
    /\ submissionStatus' = ERROR
    /\ resetForm
    /\ UNCHANGED <<isAiLoading, updatedFields,
                   readers, nlpCalls, ocrCalls, timers, events>>

\* handleSubmit after its await, when submitExpense throws: the configuration
\* error, or the error that wraps a rejected fetch
SubmitRejected ==
    /\ submitCall # NoCall
    /\ submitCall' = Tail(submitCall)
    /\ submissionError' = <<IF submitCall[1].sent THEN NetworkErrorMessage
                              ELSE ConfigurationErrorMessage>>
    /\ submissionStatus' = ERROR
    /\ UNCHANGED <<expenseData, receiptFile, receiptPreview, naturalLanguageQuery,
                   isAiLoading, aiError, updatedFields,
                   readers, nlpCalls, ocrCalls, timers, events>>

Next ==
    \/ \E name \in FormFields : \E value \in InputValues(name) : HandleDataChange(name, value)
    \/ \E text \in TypedQueries : SetQuery(text)
    \/ HandleNlpParse
    \/ \E file \in Files : HandleFileChange(file)
    \/ RemoveReceipt
    \/ HandleSubmit
    \/ ModalClose
    \/ \E file \in Files : \E result \in ReadResults(file) : ReaderLoadEnd(file, result)
    \/ \E outcome \in ServiceOutcomes : NlpDone(outcome)
    \/ \E outcome \in ServiceOutcomes : OcrDone(outcome)
    \/ TimerFires
    \/ SubmitResolved
    \/ SubmitRejected

Spec == Init /\ [][Next]_vars

TypeOK ==
    /\ DOMAIN expenseData = AllFields
    /\ receiptFile \in Files \cup {Null}
    /\ isAiLoading \in BOOLEAN
    /\ submissionStatus \in {IDLE, SUBMITTING, SUCCESS, ERROR}
    /\ updatedFields \subseteq AllFields
    /\ nlpCalls \in 0..MaxCalls /\ ocrCalls \in 0..MaxCalls
    /\ timers \in 0..MaxTimers
    /\ events \in 0..MaxEvents

-----------------------------------------------------------------------------
(* The validator on its own: submit on every record of a bounded set *)

ValidateAmounts == {Unset, <<0>>, <<500>>, <<501>>, <<600>>}

ValidateRecords ==
    { [emptyExpenseState EXCEPT !.expenseCategory = c, !.project = p,
                                !.expenseTitle = t, !.expenseDate = d,
                                !.amount = a, !.comment = m] :
        c \in {"", "Travel"}, p \in {"", "Sales"}, t \in {"", "Taxi"},
        d \in {<<>>, Today}, a \in ValidateAmounts, m \in {"", "client visit"} }

InitValidate ==
    /\ expenseData \in ValidateRecords
    /\ \E f \in {Null, "a.png"} :
          /\ receiptFile = f
          /\ receiptPreview = IF f = Null THEN NoPreview ELSE DataUrl(f)
    /\ naturalLanguageQuery = <<>>
    /\ isAiLoading = FALSE
    /\ aiError = Null
    /\ submissionStatus = IDLE
    /\ submissionError = NoMessage
    /\ updatedFields = {}
    /\ readers = NoReaders
    /\ nlpCalls = 0
    /\ ocrCalls = 0
    /\ timers = 0
    /\ submitCall = NoCall
    /\ events = 0

NextValidate ==
    \/ HandleSubmit
    \/ ModalClose
    \/ SubmitResolved
    \/ SubmitRejected

SpecValidate == InitValidate /\ [][NextValidate]_vars

-----------------------------------------------------------------------------
(* The merge on its own: handleAiParseSuccess on suggestions of its parameter
   type, Partial<ExpenseData>, identity fields included *)

MergeSuggestions ==
    { <<>>,
      [employeeName |-> "Mallory"],
      [employeeId |-> "mallory@example.com"],
      [employeeName |-> "Mallory", employeeId |-> "mallory@example.com"],
      [employeeName |-> "Mallory", expenseTitle |-> "Hyatt"],
      [expenseTitle |-> "Taxi", amount |-> <<600>>],
      [expenseCategory |-> "Travel", project |-> "Sales",
       expenseDate |-> <<"2024-07-10">>, currency |-> "USD",
       comment |-> "client dinner"] }

\* a call of handleAiParseSuccess
MergeSuggestion(s) ==
    /\ handleAiParseSuccess(s)
    /\ UNCHANGED <<receiptFile, receiptPreview, naturalLanguageQuery, isAiLoading,
                   aiError, submissionStatus, submissionError,
                   readers, nlpCalls, ocrCalls, submitCall, events>>

NextMerge ==
    \/ \E s \in MergeSuggestions : MergeSuggestion(s)
    \/ TimerFires
    \/ \E name \in FormFields : \E value \in InputValues(name) : HandleDataChange(name, value)

SpecMerge == Init /\ [][NextMerge]_vars

\* timers are scheduled fairly: a pending setTimeout callback runs
SpecFair == Spec /\ WF_vars(TimerFires)

-----------------------------------------------------------------------------
(* The adapter on its own: one extraction in flight, resolved with every
   response object of a bounded set *)

\* a key that the response object does not have
Absent == [t |-> "absent"]

\* the values a response object may hold under each key
ResponseValues(k) ==
    CASE k = "expenseCategory" -> {Absent, JStr("Travel"), JStr("Unknown"), JNum(3)}
      [] k = "project" -> {JStr("Sales"), JNum(7)}
      [] k = "expenseTitle" -> {Absent, JStr("Hyatt")}
      [] k = "expenseDate" -> {JDate(<<"2024-07-10">>),
                               JDate(<<"2024-07-10", "T", "00:00:00Z">>),
                               JDate(<<"10 July 2024">>),
                               JDate(<<"T", "uesday">>),
                               JNum(20240710)}
      [] k = "currency" -> {JStr("usd"), JNum(1)}
      [] k = "amount" -> {JNum(600), JStr("12")}
      [] k = "comment" -> {Absent, JStr("client dinner")}
      [] k = "employeeName" -> {Absent, JStr("Mallory")}

\* the object with the keys of f that are not Absent
ObjectOf(f) == [k \in {j \in DOMAIN f : f[j] # Absent} |-> f[k]]

ParseResponses ==
    { ApiObject(ObjectOf([ expenseCategory |-> c, project |-> p, expenseTitle |-> t,
                           expenseDate |-> d, currency |-> u, amount |-> a,
                           comment |-> m, employeeName |-> n ])) :
        c \in ResponseValues("expenseCategory"), p \in ResponseValues("project"),
        t \in ResponseValues("expenseTitle"), d \in ResponseValues("expenseDate"),
        u \in ResponseValues("currency"), a \in ResponseValues("amount"),
        m \in ResponseValues("comment"), n \in ResponseValues("employeeName") }

\* a Generate call is in flight, or the extraction of an uploaded image is
InitParse ==
    /\ expenseData = emptyExpenseState
    /\ \/ /\ naturalLanguageQuery = <<"Spent 1800 on client dinner at Hyatt">>
          /\ receiptFile = Null
          /\ receiptPreview = NoPreview
          /\ nlpCalls = 1
          /\ ocrCalls = 0
          /\ events = 2
       \/ /\ naturalLanguageQuery = <<>>
          /\ receiptFile = "a.png"
          /\ receiptPreview = DataUrl("a.png")
          /\ nlpCalls = 0
          /\ ocrCalls = 1
          /\ events = 1
    /\ isAiLoading = TRUE
    /\ aiError = Null
    /\ submissionStatus = IDLE
    /\ submissionError = NoMessage
    /\ updatedFields = {}
    /\ readers = NoReaders
    /\ timers = 0
    /\ submitCall = NoCall

NextParse ==
    \/ \E outcome \in ParseResponses : NlpDone(outcome)
    \/ \E outcome \in ParseResponses : OcrDone(outcome)
    \/ TimerFires

SpecParse == InitParse /\ [][NextParse]_vars

-----------------------------------------------------------------------------
(* The submission adapter under each endpoint that constants.ts may hold:
   the configured one and the unconfigured placeholder *)

Endpoints ==
    { N8N_WEBHOOK_URL,
      <<"https://", "n8n.example.com", "/webhook/expense">>,
      <<"https://", "hooks.example.org", "/webhook/expense">> }

\* handleSubmit up to its await, in a build whose endpoint is url
HandleSubmitAt(url) ==
    /\ UserEvent
    /\ submissionStatus # SUBMITTING
    /\ LET validationError == validateForm(expenseData, receiptFile)
       IN  IF validationError # NoMessage
           THEN /\ submissionError' = validationError
                /\ submissionStatus' = ERROR
                /\ UNCHANGED submitCall
           ELSE /\ submissionStatus' = SUBMITTING
                /\ submissionError' = NoMessage
                /\ submitCall' = Append(submitCall, submitExpenseAt(url, expenseData, receiptFile))
    /\ UNCHANGED <<expenseData, receiptFile, receiptPreview, naturalLanguageQuery,
                   isAiLoading, aiError, updatedFields,
                   readers, nlpCalls, ocrCalls, timers>>

NextEndpoint ==
    \/ \E url \in Endpoints : HandleSubmitAt(url)
    \/ ModalClose
    \/ SubmitResolved
    \/ SubmitRejected

SpecEndpoint == InitValidate /\ [][NextEndpoint]_vars

-----------------------------------------------------------------------------
(* Claims *)

\* C1: in every reachable state of the controller employeeName and employeeId
\* have their session-start values.
C1_IdentityImmutable ==
    /\ expenseData.employeeName = "Snehal Papnoi"
    /\ expenseData.employeeId = "snehalpapnoi9@gmail.com"

\* a response that carried employeeName was merged, and the form was edited since
C1_Witness ==
    /\ expenseData.expenseTitle = LongTitle
    /\ expenseData.comment = "client visit"
    /\ C1_IdentityImmutable

\* the record after a merge of suggestion s: every field of s but the identity
\* fields has the suggested value, every other field is as before
Applied(s) ==
    \A f \in AllFields :
        expenseData'[f] = IF f \in DOMAIN s /\ f \notin IdentityFields
                          THEN s[f] ELSE expenseData[f]

\* C2: a merge sets every non-identity field present in the suggestion to the
\* suggested value whatever the current value is, and leaves the absent fields
\* unchanged (so the later of two suggestions wins).
C2_MergeOverwrites ==
    [][\A o \in ServiceOutcomes :
          /\ (NlpDone(o) /\ parseTextFromNaturalLanguage(o).ok)
                => Applied(parseTextFromNaturalLanguage(o).data)
          /\ (OcrDone(o) /\ parseReceiptFromImage(o).ok)
                => Applied(parseReceiptFromImage(o).data)]_vars

\* two merges: the title of the later suggestion replaced the title of the
\* earlier one, whose other fields stay
C2_Witness ==
    /\ expenseData.expenseTitle = LongTitle
    /\ expenseData.comment = "client dinner"
    /\ expenseData.project = "Sales"
    /\ expenseData.amount = <<600>>

ViolationOrder ==
    <<"Expense Category", "Project / Cost Center", "Expense Title",
      "Expense Date", "Amount", "Comment", "Upload Receipt">>

CheckFails(label, data, file) ==
    CASE label = "Expense Category" -> data.expenseCategory = ""
      [] label = "Project / Cost Center" -> data.project = ""
      [] label = "Expense Title" -> data.expenseTitle = ""
      [] label = "Expense Date" -> data.expenseDate = <<>>
      [] label = "Amount" -> data.amount = Unset
      [] label = "Comment" -> data.comment = ""
      [] label = "Upload Receipt" -> data.amount # Unset /\ data.amount[1] > 500 /\ file = Null

ExpectedViolations(data, file) ==
    LET fails(label) == CheckFails(label, data, file)
    IN  SelectSeq(ViolationOrder, fails)

ValidationFailed == submissionStatus = ERROR /\ Head(submissionError) = ValidationPrefix

\* C3: validate reports exactly the failing checks, all of them, in the order
\* category, project, title, date, amount, comment, receipt; amount 0 passes;
\* the record is valid (the submit goes on) iff that list is empty.
C3_ValidateCollectsAll ==
    /\ ValidationFailed =>
          /\ Tail(submissionError) = ExpectedViolations(expenseData, receiptFile)
          /\ Tail(submissionError) # <<>>
    /\ submitCall # NoCall =>
          ExpectedViolations(submitCall[1].data, submitCall[1].file) = <<>>

\* the example of the specification: amount 0, date set, nothing else
C3_Witness ==
    /\ ValidationFailed
    /\ expenseData.amount = <<0>>
    /\ expenseData.expenseDate = Today
    /\ receiptFile = Null
    /\ Tail(submissionError) =
          <<"Expense Category", "Project / Cost Center", "Expense Title", "Comment">>

\* C4: the receipt violation is reported iff amount > 500 and there is no
\* attachment; a submit is accepted only when that is not the case.
C4_ReceiptAbove500 ==
    /\ ValidationFailed =>
          ("Upload Receipt" \in RangeOf(submissionError)
             <=> (NumberOf(expenseData.amount) > 500 /\ receiptFile = Null))
    /\ submitCall # NoCall =>
          ~(NumberOf(submitCall[1].data.amount) > 500 /\ submitCall[1].file = Null)

\* amount 501 without attachment, everything else set: only the receipt is reported
C4_Witness ==
    /\ ValidationFailed
    /\ expenseData.amount = <<501>>
    /\ receiptFile = Null
    /\ Tail(submissionError) = <<"Upload Receipt">>

\* C5: a submit of a record with amount >= 500 and no attachment is rejected
\* with the receipt violation (the tooltip: "equal to or above 500").
C5_ReceiptFrom500 ==
    /\ submitCall # NoCall =>
          ~(NumberOf(submitCall[1].data.amount) >= 500 /\ submitCall[1].file = Null)
    /\ (ValidationFailed /\ NumberOf(expenseData.amount) >= 500 /\ receiptFile = Null)
          => "Upload Receipt" \in RangeOf(submissionError)


Transition(from, to) == submissionStatus = from /\ submissionStatus' = to

\* C6 as stated: every change of SubmissionState is Idle->Submitting,
\* Submitting->Success, Submitting->Error, Error->Idle or Success->Idle; Error
\* is entered only from Submitting.
C6_TransitionsAsStated ==
    [][submissionStatus' # submissionStatus =>
          \/ Transition(IDLE, SUBMITTING)
          \/ Transition(SUBMITTING, SUCCESS)
          \/ Transition(SUBMITTING, ERROR)
          \/ Transition(ERROR, IDLE)
          \/ Transition(SUCCESS, IDLE)]_vars

\* C6, amended: every change of SubmissionState is Idle->Submitting (submit,
\* validation passes, the call is dispatched), Idle->Error (submit, validation
\* fails, nothing dispatched), Submitting->Success or Submitting->Error (the
\* call in flight ends), Error->Idle or Success->Idle; Submitting is entered
\* only from Idle.
C6_Transitions ==
    [][submissionStatus' # submissionStatus =>
          \/ /\ Transition(IDLE, SUBMITTING)
             /\ validateForm(expenseData, receiptFile) = NoMessage
             /\ submitCall = NoCall /\ submitCall' # NoCall
          \/ /\ Transition(IDLE, ERROR)
             /\ validateForm(expenseData, receiptFile) # NoMessage
             /\ submitCall = NoCall /\ submitCall' = NoCall
          \/ /\ Transition(SUBMITTING, SUCCESS)
             /\ submitCall # NoCall /\ submitCall' = NoCall
          \/ /\ Transition(SUBMITTING, ERROR)
             /\ submitCall # NoCall /\ submitCall' = NoCall
          \/ Transition(ERROR, IDLE)
          \/ Transition(SUCCESS, IDLE)]_vars

\* a failed transport call was dismissed and the retry was rejected by validation
C6_Witness ==
    /\ ValidationFailed
    /\ submitCall = NoCall
    /\ events = MaxEvents
    /\ expenseData.amount = <<600>>
    /\ receiptFile = Null
    /\ Tail(submissionError) = <<"Upload Receipt">>

\* C7: a submit on a record that fails validation dispatches no transport
\* call, sets SubmissionState to Error with the violation message, and leaves
\* the record, the attachment and the description text unchanged.
C7_InvalidSubmitSendsNothing ==
    [][(HandleSubmit /\ ExpectedViolations(expenseData, receiptFile) # <<>>) =>
          /\ submitCall' = NoCall
          /\ submissionStatus' = ERROR
          /\ submissionError' = <<ValidationPrefix>> \o ExpectedViolations(expenseData, receiptFile)
          /\ UNCHANGED formVars]_vars

\* a rejected submit of a form that holds a record, an attachment and a description
C7_Witness ==
    /\ ValidationFailed
    /\ submitCall = NoCall
    /\ receiptFile # Null
    /\ receiptPreview # NoPreview
    /\ naturalLanguageQuery # <<>>
    /\ expenseData.expenseTitle = LongTitle

\* C8: on Submitting->Success the record equals the session defaults, the
\* attachment file and preview are null and the description text is empty.
C8_SuccessResetsForm ==
    [][Transition(SUBMITTING, SUCCESS) =>
          /\ expenseData'.expenseCategory = "" /\ expenseData'.project = ""
          /\ expenseData'.expenseTitle = "" /\ expenseData'.comment = ""
          /\ expenseData'.amount = Unset /\ expenseData'.currency = "INR"
          /\ expenseData'.expenseDate = Today
          /\ expenseData'.employeeName = "Snehal Papnoi"
          /\ expenseData'.employeeId = "snehalpapnoi9@gmail.com"
          /\ receiptFile' = Null
          /\ receiptPreview' = NoPreview
          /\ naturalLanguageQuery' = <<>>]_vars

\* a submission succeeded and the form is the default form
C8_Witness ==
    /\ submissionStatus = SUCCESS
    /\ expenseData = emptyExpenseState
    /\ receiptFile = Null /\ receiptPreview = NoPreview
    /\ naturalLanguageQuery = <<>>

\* C9: in every reachable state the preview is non-null iff the file is non-null.
C9_PreviewIffFile ==
    (receiptPreview # NoPreview) <=> (receiptFile # Null)

\* C10: at most one AI extraction call, text or image, is in flight.
C10_OneExtractionInFlight ==
    nlpCalls + ocrCalls <= 1


\* C11: at most one submitExpense call is in flight, and one is in flight
\* exactly while SubmissionState is Submitting (no submit starts meanwhile).
C11_OneSubmissionInFlight ==
    /\ Len(submitCall) <= 1
    /\ (submissionStatus = SUBMITTING) <=> (submitCall # NoCall)

\* a call is in flight and the user has gone on working on the form
C11_Witness ==
    /\ Len(submitCall) = 1
    /\ submissionStatus = SUBMITTING
    /\ expenseData # submitCall[1].data

\* the field names of suggestion s that the merge applies
NonIdentityFields(s) == {f \in AllFields : f \in DOMAIN s /\ f \notin IdentityFields}

\* C12: the HighlightSet set by a merge is exactly the set of non-identity
\* field names of the suggestion; each of them was written with the suggested
\* value and no field outside the set was written.
C12_HighlightIsApplied ==
    [][\A s \in MergeSuggestions :
          (MergeSuggestion(s) /\ DOMAIN s # {}) =>
              /\ updatedFields' = NonIdentityFields(s)
              /\ \A f \in updatedFields' : expenseData'[f] = s[f]
              /\ \A f \in AllFields \ updatedFields' : expenseData'[f] = expenseData[f]]_vars

\* a suggestion with employeeName and a title was merged over an edited form:
\* the title alone is highlighted
C12_Witness ==
    /\ updatedFields = {"expenseTitle"}
    /\ expenseData.expenseTitle = "Hyatt"
    /\ expenseData.employeeName = "Snehal Papnoi"
    /\ expenseData.comment = "client visit"

C14_HighlightClears == (updatedFields # {}) ~> (updatedFields = {})

\* a full suggestion was merged and highlighted, and its timer has cleared it
C14_Witness ==
    /\ updatedFields = {}
    /\ timers = 0
    /\ expenseData.comment = "client dinner"
    /\ expenseData.expenseTitle = "Hyatt"

\* C15: when an image extraction resolves after the attachment was removed,
\* its suggestion is merged all the same: the record takes the suggested
\* fields and they are highlighted.
C15_StaleResultMerged ==
    [][\A o \in ServiceOutcomes :
          (OcrDone(o) /\ receiptFile = Null /\ parseReceiptFromImage(o).ok) =>
              LET s == parseReceiptFromImage(o).data
              IN  /\ Applied(s)
                  /\ DOMAIN s # {} => updatedFields' = DOMAIN s]_vars

\* the attachment was removed while an image extraction is in flight
C15_Witness ==
    /\ receiptFile = Null
    /\ receiptPreview = NoPreview
    /\ ocrCalls > 0
    /\ ~isAiLoading

\* the response resolved but is not structured data: JSON.parse throws, or the
\* parsed value is null
Unparseable(o) == o.api = "resolve" /\ o.json # "object"

\* C16: an unparseable response gives an error message different from the one
\* of a remote call that errors, in the text path and in the image path.
C16_FailureCausesDistinct ==
    [][\A o \in ServiceOutcomes :
          Unparseable(o) =>
              /\ NlpDone(o) => aiError' # parseTextFromNaturalLanguage(ApiReject).message
              /\ OcrDone(o) => aiError' # parseReceiptFromImage(ApiReject).message]_vars

\* the fields of the response schema
SchemaFields ==
    {"expenseCategory", "project", "expenseTitle", "expenseDate",
     "currency", "amount", "comment"}

\* result r of the adapter for response object obj: the call succeeds, the
\* suggestion has schema fields only, expenseCategory exactly when the response
\* has one of the enumerated categories, and every other field whose response
\* value has the declared type
SuggestionKept(obj, r) ==
    /\ r.ok
    /\ DOMAIN r.data \subseteq SchemaFields
    /\ "expenseCategory" \in DOMAIN r.data <=>
          /\ Has(obj, "expenseCategory", "string")
          /\ obj.expenseCategory.s \in
                {"Travel", "Food Expense", "Accommodation", "Business Expense"}
    /\ "expenseCategory" \in DOMAIN r.data => r.data.expenseCategory = obj.expenseCategory.s
    /\ \A k \in {"project", "expenseTitle", "comment"} :
          Has(obj, k, "string") => k \in DOMAIN r.data /\ r.data[k] = obj[k].s
    /\ \A k \in {"expenseDate", "currency"} : Has(obj, k, "string") => k \in DOMAIN r.data
    /\ Has(obj, "amount", "number") =>
          "amount" \in DOMAIN r.data /\ r.data.amount = <<obj.amount.n>>

IsDateOnly(segs) == Len(segs) = 1 /\ segs[1] \in {"2024-07-10", "2026-11-06", "2026-11-01"}

\* suggestion s is within the domain of ExpenseRecord
InRecordDomain(s) ==
    /\ "expenseDate" \in DOMAIN s => IsDateOnly(s.expenseDate)
    /\ "currency" \in DOMAIN s => s.currency \in {"USD", "EUR", "INR"}

\* C18: every suggestion the adapter returns has a date-only YYYY-MM-DD
\* expenseDate and an upper-case currency, when it has them.
C18_SuggestionInDomain ==
    [][\A o \in ParseResponses :
          /\ NlpDone(o) => InRecordDomain(parseTextFromNaturalLanguage(o).data)
          /\ OcrDone(o) => InRecordDomain(parseReceiptFromImage(o).data)]_vars

\* what a blocked Generate or file selection leaves as it was: the record, the
\* attachment, the loading flag, and the calls and reads in flight
BlockedFrame ==
    UNCHANGED <<expenseData, receiptFile, receiptPreview, isAiLoading,
                nlpCalls, ocrCalls, readers, updatedFields, timers>>

\* C19: Generate with a blank description or one of more than 500 characters,
\* and the selection of a file that is not an image or is larger than 5MB,
\* start no call and no read, set the AI error message and leave the record,
\* the attachment and the loading flag unchanged.
C19_PreconditionsBlock ==
    [][/\ (/\ HandleNlpParse
           /\ \/ TrimIsEmpty(naturalLanguageQuery)
              \/ StrLen(naturalLanguageQuery) > 500)
          => /\ aiError' \in {"Please enter a description.",
                              "Input is too long. Please keep it under 500 characters."}
             /\ BlockedFrame
       /\ \A f \in Files :
             (/\ HandleFileChange(f)
              /\ \/ FileType(f) \notin {"image/png", "image/jpeg"}
                 \/ FileSize(f) > 5 * 1024 * 1024)
             => /\ aiError' \in {"Only image files are supported.",
                                 "File is too large. Please upload an image under 5MB."}
                /\ BlockedFrame]_vars

\* Generate was refused for a description of more than 500 characters, written
\* by the extraction of the attached receipt, which is still attached
C19_Witness ==
    /\ aiError = "Input is too long. Please keep it under 500 characters."
    /\ StrLen(naturalLanguageQuery) > 500
    /\ receiptFile # Null
    /\ receiptPreview # NoPreview
    /\ nlpCalls = 0
    /\ ~isAiLoading

\* the remote call errors, or resolves with something that is not an object
FailedExtraction(o) == o.api = "reject" \/ o.json # "object"

\* C20: when an extraction fails the controller sets the AI error message and
\* clears the loading flag; the record, the HighlightSet, its timers and the
\* description are as before.
C20_FailureCaught ==
    [][\A o \in ServiceOutcomes :
          FailedExtraction(o) =>
              /\ NlpDone(o) =>
                    /\ aiError' = "Failed to process your request. The AI service may be unavailable."
                    /\ isAiLoading' = FALSE
                    /\ UNCHANGED <<expenseData, updatedFields, timers, naturalLanguageQuery>>
              /\ OcrDone(o) =>
                    /\ aiError' = "Failed to read the receipt. The AI service may be unavailable."
                    /\ isAiLoading' = FALSE
                    /\ UNCHANGED <<expenseData, updatedFields, timers, naturalLanguageQuery>>]_vars

\* the extraction of an uploaded receipt failed over an edited form with a
\* highlight still shown: the edit and the highlight are intact
C20_Witness ==
    /\ aiError = "Failed to read the receipt. The AI service may be unavailable."
    /\ ~isAiLoading
    /\ CallsInFlight = 0
    /\ receiptFile # Null
    /\ expenseData.expenseTitle = "Hyatt"
    /\ updatedFields # {}

\* a submitExpense call ends and the submission has not succeeded: it threw
SubmissionThrows ==
    /\ submitCall # NoCall
    /\ submitCall' = Tail(submitCall)
    /\ submissionStatus' # SUCCESS

\* C21: when the transport call throws, SubmissionState becomes Error with a
\* message and record, attachment and description keep their values; closing
\* the error modal keeps them too, so the same form can be submitted again.
C21_FailureKeepsForm ==
    [][/\ SubmissionThrows =>
             /\ submissionStatus' = ERROR
             /\ submissionError' # NoMessage
             /\ UNCHANGED <<expenseData, receiptFile, receiptPreview, naturalLanguageQuery>>
       /\ Transition(ERROR, IDLE) =>
             UNCHANGED <<expenseData, receiptFile, receiptPreview, naturalLanguageQuery>>]_vars

\* the transport threw on a complete form with a receipt: the error is shown
\* and the form is as it was sent
C21_Witness ==
    /\ submissionStatus = ERROR
    /\ submissionError = <<NetworkErrorMessage>>
    /\ submitCall = NoCall
    /\ validateForm(expenseData, receiptFile) = NoMessage
    /\ receiptFile # Null
    /\ naturalLanguageQuery # <<>>

\* the call was made in a build whose endpoint is the placeholder
ToPlaceholder(call) == call.url[2] = "n8n.example.com"

\* C22: a submit to the placeholder endpoint builds and sends no payload, and
\* ends in Error with the configuration message, never in Success.
C22_PlaceholderNeverSends ==
    [][/\ \A i \in 1..Len(submitCall') :
             ToPlaceholder(submitCall'[i]) =>
                 ~submitCall'[i].sent /\ submitCall'[i].payload = <<>>
       /\ (/\ submitCall # NoCall
           /\ submitCall' = Tail(submitCall)
           /\ ToPlaceholder(submitCall[1]))
          => /\ submissionStatus' = ERROR
             /\ submissionError' =
                   <<"Submission failed. The n8n webhook URL has not been configured in 'constants.ts'.">>]_vars

\* a complete form was submitted to the placeholder endpoint and the
\* configuration error is shown
C22_Witness ==
    /\ submissionStatus = ERROR
    /\ submissionError = <<ConfigurationErrorMessage>>
    /\ submitCall = NoCall
    /\ validateForm(expenseData, receiptFile) = NoMessage

\* the values of the entries of payload p that are named name
EntriesNamed(p, name) == {i \in 1..Len(p) : p[i][1] = name}

\* the string form of the value of a record field
StringForm(field, value) ==
    IF field = "amount"
    THEN (IF value = Unset THEN "" ELSE ToString(value[1]))
    ELSE value

\* payload p is the one claimed for record data and attachment file
PayloadAsClaimed(p, data, file) ==
    /\ \A f \in {"employeeName", "employeeId", "expenseCategory", "project",
                 "expenseTitle", "expenseDate", "currency", "amount", "comment"} :
          /\ Cardinality(EntriesNamed(p, f)) = 1
          /\ \A i \in EntriesNamed(p, f) : p[i][2] = StringForm(f, data[f])
    /\ Cardinality(EntriesNamed(p, "timestamp")) = 1
    /\ Cardinality(EntriesNamed(p, "status")) = 1
    /\ \A i \in EntriesNamed(p, "status") : p[i][2] = "Submitted"
    /\ Cardinality(EntriesNamed(p, "receipt")) = (IF file # Null THEN 1 ELSE 0)
    /\ \A i \in EntriesNamed(p, "receipt") : p[i][2] = file
    /\ Len(p) = 11 + (IF file # Null THEN 1 ELSE 0)

\* C23: the payload of every submitExpense call has one entry per record field
\* with the string form of its value, one timestamp, one status "Submitted",
\* and a receipt entry iff a file is attached, and nothing else.
C23_PayloadContents ==
    \A i \in 1..Len(submitCall) :
        PayloadAsClaimed(submitCall[i].payload, submitCall[i].data, submitCall[i].file)

\* a record of at most 500 is in flight without a receipt entry
C23_Witness ==
    /\ Len(submitCall) = 1
    /\ submitCall[1].file = Null
    /\ submitCall[1].data.amount = <<500>>
    /\ Len(submitCall[1].payload) = 11

\* C24: while SubmissionState is Success the record equals the session
\* defaults and the attachment (file and preview) is empty.
C24_SuccessFormStaysDefault ==
    submissionStatus = SUCCESS =>
        /\ expenseData = emptyExpenseState
        /\ receiptFile = Null
        /\ receiptPreview = NoPreview

\* a suggestion with at least one field arrives and is merged
MergeArrives ==
    \E o \in ServiceOutcomes :
        \/ NlpDone(o) /\ parseTextFromNaturalLanguage(o).ok
                      /\ DOMAIN parseTextFromNaturalLanguage(o).data # {}
        \/ OcrDone(o) /\ parseReceiptFromImage(o).ok
                      /\ DOMAIN parseReceiptFromImage(o).data # {}

\* C25: a merge adds its clear timer to the pending ones and cancels none, and
\* a timer that fires empties the HighlightSet whichever merge has set it; so a
\* first merge's timer clears the highlight of a second merge whose own timer
\* is still pending.
C25_TimerNotCancelled ==
    [][/\ MergeArrives => timers' = timers + 1
       /\ timers' < timers => updatedFields' = {}]_vars

\* two suggestions were merged, the later one over the earlier; one timer has
\* fired and emptied the HighlightSet while the other is still pending
C25_Witness ==
    /\ updatedFields = {}
    /\ timers = 1
    /\ expenseData.expenseTitle = LongTitle
    /\ expenseData.comment = "client dinner"

\* C26: a step in which a highlight-clear timer fires leaves the record, the
\* attachment, the description, the loading flag, the AI error and
\* SubmissionState unchanged; and every step that writes the record is a user
\* event, the arrival of an extraction result or the end of a submission.
C26_TimerOnlyClearsHighlight ==
    [][/\ timers' < timers =>
             UNCHANGED <<expenseData, receiptFile, receiptPreview, naturalLanguageQuery,
                         isAiLoading, aiError, submissionStatus, submissionError>>
       /\ expenseData' # expenseData =>
             \/ events' = events + 1
             \/ nlpCalls' < nlpCalls
             \/ ocrCalls' < ocrCalls
             \/ Len(submitCall') < Len(submitCall)]_vars

\* the only timer has fired over a form that holds a merged record, an
\* attachment, a description and an AI error: all of them are still there
C26_Witness ==
    /\ updatedFields = {}
    /\ timers = 0
    /\ expenseData.expenseTitle = "Hyatt"
    /\ receiptFile # Null
    /\ receiptPreview # NoPreview
    /\ naturalLanguageQuery # <<>>
    /\ aiError # Null

\* C27: the AI loading flag is true iff an extraction call is in flight.
C27_LoadingIffExtracting ==
    isAiLoading <=> (nlpCalls + ocrCalls > 0)

\* C28: a submitExpense call is made with the record and attachment of the
\* moment of the submit, which pass validation, and with their payload; no
\* later step changes a call in flight; and the success resets the form
\* whatever was edited or merged meanwhile.
C28_PayloadIsValidatedSnapshot ==
    [][/\ Len(submitCall') > Len(submitCall) =>
             LET call == submitCall'[Len(submitCall')]
             IN  /\ call.data = expenseData
                 /\ call.file = receiptFile
                 /\ ExpectedViolations(call.data, call.file) = <<>>
                 /\ PayloadAsClaimed(call.payload, expenseData, receiptFile)
       /\ Len(submitCall') = Len(submitCall) => submitCall' = submitCall
       /\ Transition(SUBMITTING, SUCCESS) =>
             /\ expenseData' = emptyExpenseState
             /\ receiptFile' = Null]_vars

\* the comment was edited by hand while the submission is in flight: the call
\* holds the comment that was validated
C28_Witness ==
    /\ Len(submitCall) = 1
    /\ submissionStatus = SUBMITTING
    /\ submitCall[1].data.comment = "client dinner"
    /\ expenseData.comment = "client visit"

====
